---- MODULE Spec2Model ----
(***************************************************************************)
(* Travel-planning chat agent: the tool registry (tools.ts), the chat      *)
(* agent's exchange (server.ts, Chat.onChatMessage), the tool card of the  *)
(* UI (ToolInvocationCard) and the travel data-source adapter              *)
(* (services/travel.ts).                                                   *)
(*                                                                         *)
(* Two specifications:                                                     *)
(*   Spec        the conversation: tool calls, decisions, the Confirmation *)
(*               Gate's reconciliation pass and the model round trips;     *)
(*   SpecTravel  one call of searchFlights / searchHotels against a        *)
(*               provider whose responses are chosen nondeterministically. *)
(***************************************************************************)
EXTENDS Integers, Sequences, FiniteSets, TLC

(***************************************************************************)
(* Bounds of the model.                                                    *)
(***************************************************************************)
MaxCalls == 2

CallIds == 1..MaxCalls
\* two argument objects the model may send with a call
Args == {"argsA", "argsB"}

(***************************************************************************)
(* The Capability Registry: `tools` of tools.ts.                           *)
(***************************************************************************)
\* The tools the model requests in the checked runs: the three tools declared
\* without execute and one of the tools declared with one.
RequestedTools ==
  {"getWeatherInformation", "bookFlight", "bookHotel", "searchFlights"}

ToolNames ==
  {"getWeatherInformation", "getLocalTime", "searchFlights", "searchHotels",
   "getRecommendations", "estimateTravelBudget", "scheduleTask",
   "getScheduledTasks", "cancelScheduledTask", "bookFlight", "bookHotel"}

\* faulty variant: bookFlight declared with an execute function
HasExecuteBookFlightAuto(t) ==
  t \in {"getLocalTime", "searchFlights", "searchHotels", "getRecommendations",
         "estimateTravelBudget", "scheduleTask", "getScheduledTasks",
         "cancelScheduledTask", "bookFlight"}

\* faulty variant: getWeatherInformation declared with an execute function
HasExecuteWeatherAuto(t) ==
  t \in {"getWeatherInformation", "getLocalTime", "searchFlights", "searchHotels",
         "getRecommendations", "estimateTravelBudget", "scheduleTask",
         "getScheduledTasks", "cancelScheduledTask"}

\* faulty variant: searchFlights and searchHotels declared without execute
HasExecuteSearchUndeclared(t) ==
  t \in {"getLocalTime", "getRecommendations",
         "estimateTravelBudget", "scheduleTask", "getScheduledTasks",
         "cancelScheduledTask"}

\* A tool declared with an execute function runs automatically.
HasExecute(t) ==
  t \in {"getLocalTime", "searchFlights", "searchHotels", "getRecommendations",
         "estimateTravelBudget", "scheduleTask", "getScheduledTasks",
         "cancelScheduledTask"}

\* faulty variant: no bookHotel entry in `executions`
ExecutionsWithoutBookHotel == {"getWeatherInformation", "bookFlight"}

\* faulty variant: `executions` also holds an entry for searchFlights
ExecutionsWithSearchFlights ==
  {"getWeatherInformation", "bookFlight", "bookHotel", "searchFlights"}

\* Keys of `executions`: the implementations of the confirmation-required tools.
Executions == {"getWeatherInformation", "bookFlight", "bookHotel"}

\* What an operation returns for its arguments: the auto tools' execute and the
\* entries of `executions` (bookFlight -> svcBookFlight: provider "MockAir",
\* details = the payload; bookHotel -> "MockStay"; the weather string names the city).
OperationResult(t, a) == [kind |-> "ok", tool |-> t, details |-> a]

(***************************************************************************)
(* Values of the gate.                                                     *)
(***************************************************************************)
NoCall == [toolName |-> "none", args |-> "none"]
NoResult == [kind |-> "none"]
\* the fixed cancellation result
UserDenied == [kind |-> "denied", text |-> "user denied"]
\* the structured error payload recorded when the gated operation fails
ErrorPayload(t) == [kind |-> "error", tool |-> t]

ApprovalYes == "approved"
ApprovalNo == "rejected"
NoDecision == "none"

VARIABLES
  toolInvocations,  \* call id -> [toolName, args], NoCall when not in the conversation
  decisions,        \* call id -> the decision supplied for it
  results,          \* call id -> the result recorded against it
  runs,             \* call id -> the runs of its operation: <<[args, decision, threw]>>
  passes,           \* call id -> passes over it since its decision: "none" | "once" | "again"
  pc,               \* "idle" | "streaming" | "aborted"
  \* one call of the data-source adapter (services/travel.ts)
  env,              \* E: AMADEUS_CLIENT_ID, AMADEUS_CLIENT_SECRET, DISABLE_TRAVEL_MOCKS
  search,           \* the function called and its params
  tpc,              \* position in the call: "idle", "start", the fetch awaited, "done", "threw"
  cityCode,         \* searchHotels: the resolved city code
  requests,         \* the provider requests sent, in order
  returned,         \* the list the call returned
  failedAt,         \* the failure point the call fell back at
  thrown,           \* the request whose failure left the call as an exception
  responses,        \* the provider's answers received, in order: [request, outcome, data]
  \* one conversation at the grain of its messages (server.ts)
  messages,         \* this.messages: the turns recorded, in order
  approvals,        \* the decisions the caller supplied: {[id, decision]}
  xpc,              \* "idle" | "streaming"
  modelInput,       \* the messages streamText was last invoked with
  response,         \* the turns the exchange in progress has streamed so far
  cancelledAt,      \* Len(response) when the abort signal fired, -1 when it has not
  \* one tool call from the model's request to the operation (tools.ts)
  invocation        \* [pc, tool, args, parsed, error, ran]

gateVars == <<toolInvocations, decisions, results, runs, passes, pc>>
travelVars == <<env, search, tpc, cityCode, requests, returned, failedAt, thrown, responses>>
exchangeVars == <<messages, approvals, xpc, modelInput, response, cancelledAt>>
validationVars == <<invocation>>
vars == <<toolInvocations, decisions, results, runs, passes, pc,
          env, search, tpc, cityCode, requests, returned, failedAt, thrown, responses,
          messages, approvals, xpc, modelInput, response, cancelledAt,
          invocation>>

Present(id) == toolInvocations[id] # NoCall

\* ToolInvocation.state as the card sees it: "call" until a result (or a
\* decision, which addToolResult stores as the result) is attached.
ToolInvocationState(id) ==
  IF decisions[id] = NoDecision /\ results[id] = NoResult THEN "call" ELSE "result"

\* app.tsx: toolsRequiringConfirmation.includes(toolName)
ToolsRequiringConfirmation == {"getWeatherInformation", "bookFlight", "bookHotel"}

Undefined == "undefined"
NoSearch == [fn |-> "none"]
NoFailure == "none"
NothingThrown == [at |-> "none", how |-> "none"]

GateInit ==
  /\ toolInvocations = [id \in CallIds |-> NoCall]
  /\ decisions = [id \in CallIds |-> NoDecision]
  /\ results = [id \in CallIds |-> NoResult]
  /\ runs = [id \in CallIds |-> <<>>]
  /\ passes = [id \in CallIds |-> "none"]
  /\ pc = "idle"

\* no adapter call in progress
TravelIdle ==
  /\ env = [AMADEUS_CLIENT_ID |-> Undefined, AMADEUS_CLIENT_SECRET |-> Undefined,
            DISABLE_TRAVEL_MOCKS |-> Undefined]
  /\ search = NoSearch
  /\ tpc = "idle"
  /\ cityCode = Undefined
  /\ requests = <<>>
  /\ returned = <<>>
  /\ failedAt = NoFailure
  /\ thrown = NothingThrown
  /\ responses = <<>>

\* no tool call under way
NoIssues == [name |-> "none", toolName |-> "none", issues |-> {}]
NoInvocation ==
  [pc |-> "idle", tool |-> "none", args |-> <<>>, parsed |-> <<>>,
   error |-> NoIssues, ran |-> <<>>]
ValidationIdle == invocation = NoInvocation

\* no exchange yet
ExchangeIdle ==
  /\ messages = <<>>
  /\ approvals = {}
  /\ xpc = "idle"
  /\ modelInput = <<>>
  /\ response = <<>>
  /\ cancelledAt = -1

Init == GateInit /\ TravelIdle /\ ExchangeIdle /\ ValidationIdle

(***************************************************************************)
(* The Confirmation Gate: processToolCalls, one call's reconciliation.     *)
(***************************************************************************)
\* faulty variant: a call that carries a recorded result is processed again
GateActsOnRecorded(call, result) ==
  call # NoCall /\ ~HasExecute(call.toolName)

\* The gate acts on a call that is in the conversation, carries no recorded
\* result and belongs to a tool declared without execute.
GateActsOn(call, result) ==
  call # NoCall /\ result = NoResult /\ ~HasExecute(call.toolName)

\* The gate invokes the call's implementation of the executions table.
GateInvokes(call, decision, result) ==
  /\ GateActsOn(call, result)
  /\ decision = ApprovalYes
  /\ call.toolName \in Executions

\* The result the pass leaves against the call.
GateOutcome(call, decision, result, threw) ==
  IF ~GateActsOn(call, result) \/ decision = NoDecision THEN result
  ELSE IF decision = ApprovalNo THEN UserDenied
  ELSE IF call.toolName \notin Executions \/ threw THEN ErrorPayload(call.toolName)
  ELSE OperationResult(call.toolName, call.args)

\* One reconciliation pass over the conversation; fails: the calls whose
\* operation throws if it is invoked.
ProcessToolCalls(res, rns, fails) ==
  [results |->
     [id \in CallIds |->
        GateOutcome(toolInvocations[id], decisions[id], res[id], id \in fails)],
   runs |->
     [id \in CallIds |->
        IF GateInvokes(toolInvocations[id], decisions[id], res[id])
        THEN Append(rns[id], [args |-> toolInvocations[id].args,
                              decision |-> decisions[id],
                              threw |-> id \in fails])
        ELSE rns[id]]]

\* The calls the next pass would invoke.
Invoked == {id \in CallIds :
              GateInvokes(toolInvocations[id], decisions[id], results[id])}

(***************************************************************************)
(* Chat.onChatMessage: the reconciliation pass, then the model call.       *)
(***************************************************************************)
\* history: every call of the conversation has been passed over once more
PassedOver ==
  [id \in CallIds |->
     IF ~Present(id) THEN passes[id]
     ELSE IF passes[id] = "none" THEN "once" ELSE "again"]

\* faulty variant: an exception of a gated operation leaves execute(), no
\* result is recorded and the model is not called
OnChatMessagePropagating(fails) ==
  /\ pc = "idle"
  /\ fails \subseteq Invoked
  /\ LET pass == ProcessToolCalls(results, runs, fails) IN
       /\ runs' = pass.runs
       /\ results' = IF fails = {} THEN pass.results ELSE results
       /\ pc' = IF fails = {} THEN "streaming" ELSE "aborted"
  /\ passes' = PassedOver
  /\ UNCHANGED <<toolInvocations, decisions>>
  /\ UNCHANGED <<travelVars, exchangeVars, validationVars>>

\* One exchange: the pass over this.messages, then streamText.
OnChatMessage(fails) ==
  /\ pc = "idle"
  /\ fails \subseteq Invoked
  /\ LET pass == ProcessToolCalls(results, runs, fails) IN
       /\ results' = pass.results
       /\ runs' = pass.runs
  /\ passes' = PassedOver
  /\ pc' = "streaming"
  /\ UNCHANGED <<toolInvocations, decisions>>
  /\ UNCHANGED <<travelVars, exchangeVars, validationVars>>

\* streamText: the model requests tool t with arguments a under a new call
\* id; a tool with an execute function runs at once and its result is attached.
StreamStep(id, t, a) ==
  /\ pc = "streaming"
  /\ ~Present(id)
  /\ decisions[id] = NoDecision
  /\ toolInvocations' = [toolInvocations EXCEPT ![id] = [toolName |-> t, args |-> a]]
  /\ IF HasExecute(t)
     THEN /\ results' = [results EXCEPT ![id] = OperationResult(t, a)]
          /\ runs' = [runs EXCEPT ![id] =
                        <<[args |-> a, decision |-> decisions[id], threw |-> FALSE]>>]
     ELSE UNCHANGED <<results, runs>>
  /\ UNCHANGED <<decisions, passes, pc>>
  /\ UNCHANGED <<travelVars, exchangeVars, validationVars>>

\* the model's final text: the stream is merged and the exchange ends
StreamFinish ==
  /\ pc = "streaming"
  /\ pc' = "idle"
  /\ UNCHANGED <<toolInvocations, decisions, results, runs, passes>>
  /\ UNCHANGED <<travelVars, exchangeVars, validationVars>>

(***************************************************************************)
(* ToolInvocationCard: the approve / reject controls.                      *)
(***************************************************************************)
ButtonResult(button) == IF button = "Approve" THEN ApprovalYes ELSE ApprovalNo

\* faulty variant: the controls are rendered without the test of state === "call"
CardOffersControlsAnyState(id) ==
  /\ Present(id)
  /\ toolInvocations[id].toolName \in ToolsRequiringConfirmation

\* needsConfirmation && toolInvocation.state === "call"
CardOffersControls(id) ==
  /\ Present(id)
  /\ toolInvocations[id].toolName \in ToolsRequiringConfirmation
  /\ ToolInvocationState(id) = "call"

CardDecision(id, button) ==
  /\ CardOffersControls(id)
  /\ decisions' = [decisions EXCEPT ![id] = ButtonResult(button)]
  /\ passes' = [passes EXCEPT ![id] = "none"]
  /\ UNCHANGED <<toolInvocations, results, runs, pc>>
  /\ UNCHANGED <<travelVars, exchangeVars, validationVars>>

\* A caller other than the card puts a decision in the table it supplies, for
\* a call the card offers no controls for: a call of an auto tool.
SupplyDecision(id, d) ==
  /\ Present(id)
  /\ ~CardOffersControls(id)
  /\ decisions[id] = NoDecision
  /\ decisions' = [decisions EXCEPT ![id] = d]
  /\ passes' = [passes EXCEPT ![id] = "none"]
  /\ UNCHANGED <<toolInvocations, results, runs, pc>>
  /\ UNCHANGED <<travelVars, exchangeVars, validationVars>>

Next ==
  \/ \E fails \in SUBSET CallIds : OnChatMessage(fails)
  \/ \E id \in CallIds, t \in RequestedTools, a \in Args : StreamStep(id, t, a)
  \/ StreamFinish
  \/ \E id \in CallIds, b \in {"Approve", "Reject"} : CardDecision(id, b)
  \/ \E id \in CallIds, d \in {ApprovalYes, ApprovalNo} : SupplyDecision(id, d)

Spec == Init /\ [][Next]_vars

(***************************************************************************)
(* Properties of the Confirmation Gate (specification Spec).               *)
(***************************************************************************)
\* the calls of the confirmation-required tools, in the conversation
GatedCalls ==
  {id \in CallIds : toolInvocations[id].toolName \in ToolsRequiringConfirmation}

Undecided(id) == id \in GatedCalls /\ decisions[id] = NoDecision
Approved(id) == id \in GatedCalls /\ decisions[id] = ApprovalYes
Rejected(id) == id \in GatedCalls /\ decisions[id] = ApprovalNo

\* C1: the operation of a confirmation-required call has run at most once,
\* and every run of it happened with an approval for that call identifier in
\* the decision table.
AtMostOnceAndOnlyApproved ==
  \A id \in GatedCalls :
    /\ Len(runs[id]) <= 1
    /\ \A i \in 1..Len(runs[id]) : runs[id][i].decision = ApprovalYes

ApprovedCallHasRun ==
  \E id \in GatedCalls : Len(runs[id]) = 1 /\ runs[id][1].decision = ApprovalYes

\* C2: once a pass has run over an approved call, its operation has been
\* invoked exactly once, with the call's own arguments, and a result is
\* recorded against the call: the operation's result for those arguments (the
\* error payload if the operation threw); later passes change none of it.
ApprovedRunsExactlyOnce ==
  \A id \in CallIds :
    (Approved(id) /\ passes[id] # "none") =>
      /\ Len(runs[id]) = 1
      /\ runs[id][1].args = toolInvocations[id].args
      /\ results[id] =
           IF runs[id][1].threw
           THEN ErrorPayload(toolInvocations[id].toolName)
           ELSE OperationResult(toolInvocations[id].toolName, toolInvocations[id].args)

ApprovedPassedAgain ==
  \E id \in CallIds :
    /\ Approved(id)
    /\ passes[id] = "again"
    /\ Len(runs[id]) = 1
    /\ results[id] =
         OperationResult(toolInvocations[id].toolName, toolInvocations[id].args)

\* C3: a confirmation-required call with no decision has no run of its
\* operation and no result or error recorded, after any number of passes: it
\* is still pending (state "call").
UndecidedStaysPending ==
  \A id \in CallIds :
    Undecided(id) =>
      /\ runs[id] = <<>>
      /\ results[id] = NoResult
      /\ ToolInvocationState(id) = "call"

UndecidedPassedAgain ==
  \E id \in CallIds :
    Undecided(id) /\ passes[id] = "again" /\ ToolInvocationState(id) = "call"

\* C4: a confirmation-required call with a "rejected" decision has no run of
\* its operation, and once a pass has run over it the result recorded against
\* it is the fixed denial payload.
RejectedNeverRunsAndIsDenied ==
  \A id \in CallIds :
    Rejected(id) =>
      /\ runs[id] = <<>>
      /\ results[id] = IF passes[id] = "none" THEN NoResult ELSE UserDenied

RejectedPassedAgain ==
  \E id \in CallIds :
    Rejected(id) /\ passes[id] = "again" /\ results[id] = UserDenied

\* C5: reconciliation is idempotent. A second pass over the conversation a
\* pass has produced changes nothing, whichever operations throw, and no step
\* changes the recorded result or the runs of a call that carries a result.
\* (a call's outcome depends on the failing set only through its own
\* membership, so no failure and every failure cover the second pass)
PassTwiceIsPassOnce ==
  \A f1 \in SUBSET Invoked :
    LET once == ProcessToolCalls(results, runs, f1) IN
      \A f2 \in {{}, CallIds} :
        ProcessToolCalls(once.results, once.runs, f2) = once

RecordedResultUntouched ==
  \A id \in CallIds :
    results[id] # NoResult => (results'[id] = results[id] /\ runs'[id] = runs[id])

ReconciliationIdempotent ==
  [](PassTwiceIsPassOnce) /\ [][RecordedResultUntouched]_vars

RecordedPassedAgain ==
  \E id \in GatedCalls :
    /\ passes[id] = "again"
    /\ results[id] # NoResult
    /\ \E other \in GatedCalls : other # id /\ results[other] = NoResult

\* C6: a call of a tool declared with an execute function carries the result
\* of its own single automatic run and is never pending, whatever decision is
\* supplied for its call identifier and however many passes run over it.
AutoTools == {"searchFlights", "searchHotels", "getRecommendations", "estimateTravelBudget"}

AutoNeverGated ==
  \A id \in CallIds :
    toolInvocations[id].toolName \in AutoTools =>
      /\ results[id] =
           OperationResult(toolInvocations[id].toolName, toolInvocations[id].args)
      /\ Len(runs[id]) = 1
      /\ runs[id][1].decision = NoDecision
      /\ ToolInvocationState(id) = "result"

AutoWithDecisionPassed ==
  /\ \E id \in CallIds :
       /\ toolInvocations[id].toolName \in AutoTools
       /\ decisions[id] = ApprovalYes
       /\ passes[id] = "again"
  /\ \E id \in CallIds :
       /\ toolInvocations[id].toolName \in AutoTools
       /\ decisions[id] = ApprovalNo
       /\ passes[id] = "again"

\* C7: a step in which a gated operation throws records the structured error
\* payload against that call and goes on to the model call (pc "streaming");
\* no step aborts the turn.
Threw(id) == Len(runs'[id]) > Len(runs[id]) /\ runs'[id][Len(runs'[id])].threw

FailureIsRecorded ==
  /\ pc' # "aborted"
  /\ \A id \in CallIds :
       Threw(id) =>
         /\ results'[id] = ErrorPayload(toolInvocations[id].toolName)
         /\ pc' = "streaming"

FailureRecordedTurnContinues == [][FailureIsRecorded]_vars

FailedCallStreaming ==
  \E id \in GatedCalls :
    /\ Len(runs[id]) = 1
    /\ runs[id][1].threw
    /\ results[id] = ErrorPayload(toolInvocations[id].toolName)
    /\ pc = "streaming"
    /\ \E other \in CallIds : other # id /\ Present(other) /\ passes[other] = "none"

(***************************************************************************)
(* The Data-Source Adapter: services/travel.ts.                            *)
(***************************************************************************)
MaxOffers == 11
MaxTimedOffers == 2
FlightCap == 10
HotelCap == 10

\* !!v of a string or undefined
Truthy(v) == v \notin {Undefined, ""}

\* String.prototype.toLowerCase on the flag values of the checked runs
ToLowerCase(str) ==
  CASE str \in {"true", "TRUE", "True"} -> "true"
    [] str \in {"false", "FALSE"} -> "false"
    [] OTHER -> str

\* faulty variant: || for &&
HasAmadeusEither(e) == Truthy(e.AMADEUS_CLIENT_ID) \/ Truthy(e.AMADEUS_CLIENT_SECRET)

\* hasAmadeus = !!E.AMADEUS_CLIENT_ID && !!E.AMADEUS_CLIENT_SECRET
HasAmadeus(e) == Truthy(e.AMADEUS_CLIENT_ID) /\ Truthy(e.AMADEUS_CLIENT_SECRET)

\* disableMocks = String(E.DISABLE_TRAVEL_MOCKS || "").toLowerCase() === "true"
DisableMocks(e) ==
  ToLowerCase(IF Truthy(e.DISABLE_TRAVEL_MOCKS) THEN e.DISABLE_TRAVEL_MOCKS ELSE "") = "true"

mockFlights ==
  << [id |-> "FL-1", flightNumber |-> "CF123", durationMinutes |-> 600, stops |-> 0,
      cabin |-> "economy", priceUSD |-> 450],
     [id |-> "FL-2", flightNumber |-> "CF456", durationMinutes |-> 720, stops |-> 1,
      cabin |-> "economy", priceUSD |-> 380] >>

mockHotels ==
  << [id |-> "HT-1", name |-> "Lisbon Central Hotel", stars |-> 4,
      pricePerNightUSD |-> 120, totalUSD |-> 600],
     [id |-> "HT-2", name |-> "Alfama Boutique", stars |-> 3,
      pricePerNightUSD |-> 90, totalUSD |-> 450] >>

\* A ceiling (maxPrice, budgetUSD) is read only as `ceiling ? x <= ceiling : true`
\* and `if (ceiling)`: 0 stands for an omitted one, which reads the same.
WithinCeiling(price, ceiling) == IF ceiling # 0 THEN price <= ceiling ELSE TRUE

MapSeq(seq, Op(_)) == [i \in 1..Len(seq) |-> Op(seq[i])]

Take(seq, n) == IF Len(seq) <= n THEN seq ELSE SubSeq(seq, 1, n)

\* faulty variant: the mock flights are returned without the maxPrice filter
MockFlightsUnfiltered(p) ==
  LET WithCabin(f) == [f EXCEPT !.cabin = IF p.cabin # Undefined THEN p.cabin ELSE @]
  IN MapSeq(mockFlights, WithCabin)

\* mockFlights.filter(maxPrice).map(cabin: params.cabin ?? f.cabin)
MockFlightsFor(p) ==
  LET Within(f) == WithinCeiling(f.priceUSD, p.maxPrice)
      WithCabin(f) == [f EXCEPT !.cabin = IF p.cabin # Undefined THEN p.cabin ELSE @]
  IN MapSeq(SelectSeq(mockFlights, Within), WithCabin)

\* nights = max(1, ceil((checkOut - checkIn) / one day)); dates are whole days
Nights(p) == IF p.checkOut - p.checkIn > 1 THEN p.checkOut - p.checkIn ELSE 1

\* mockHotels.map(totalUSD: pricePerNightUSD * nights).filter(budgetUSD)
MockHotelsFor(p) ==
  LET WithTotal(h) == [h EXCEPT !.totalUSD = h.pricePerNightUSD * Nights(p)]
      Within(h) == WithinCeiling(h.totalUSD, p.budgetUSD)
  IN SelectSeq(MapSeq(mockHotels, WithTotal), Within)

MockOffersFor(p) ==
  IF p.fn = "searchFlights" THEN MockFlightsFor(p) ELSE MockHotelsFor(p)

\* faulty variant: an unresolved city falls back to the mocks even when disabled
FallbackResultMocksAtCityResolution(point) ==
  IF DisableMocks(env) /\ point # "cityResolution" THEN <<>> ELSE MockOffersFor(search)

\* `if (disableMocks) return []; return mock...` at a failure point
FallbackResult(point) ==
  IF DisableMocks(env) THEN <<>> ELSE MockOffersFor(search)

(***************************************************************************)
(* resolveCityToCode: the part before the first request. A city is a       *)
(* sequence of characters.                                                 *)
(***************************************************************************)
UpperLetters ==
  <<"A", "B", "C", "D", "E", "F", "G", "H", "I", "J", "K", "L", "M",
    "N", "O", "P", "Q", "R", "S", "T", "U", "V", "W", "X", "Y", "Z">>
LowerLetters ==
  <<"a", "b", "c", "d", "e", "f", "g", "h", "i", "j", "k", "l", "m",
    "n", "o", "p", "q", "r", "s", "t", "u", "v", "w", "x", "y", "z">>

IsUpperLetter(c) == \E i \in 1..Len(UpperLetters) : UpperLetters[i] = c

UpperChar(c) ==
  IF \E i \in 1..Len(LowerLetters) : LowerLetters[i] = c
  THEN UpperLetters[CHOOSE i \in 1..Len(LowerLetters) : LowerLetters[i] = c]
  ELSE c

ToUpperCase(str) == MapSeq(str, UpperChar)

RECURSIVE TrimStart(_)
TrimStart(str) ==
  IF str # <<>> /\ Head(str) = " " THEN TrimStart(Tail(str)) ELSE str

RECURSIVE TrimEnd(_)
TrimEnd(str) ==
  IF str # <<>> /\ str[Len(str)] = " " THEN TrimEnd(SubSeq(str, 1, Len(str) - 1)) ELSE str

Trim(str) == TrimEnd(TrimStart(str))

\* /^[A-Z]{3}$/.test(str)
IsThreeLetterCode(str) ==
  Len(str) = 3 /\ \A i \in 1..Len(str) : IsUpperLetter(str[i])

\* cities.data[0], if it has an iataCode
FirstCity(data) ==
  IF data # <<>> /\ Truthy(data[1].iataCode) THEN data[1].iataCode ELSE Undefined

\* faulty variant: the locations lookup reads data[0] alone, as the cities one
FirstLocationHeadOnly(data) ==
  IF data # <<>> /\ Truthy(data[1].iataCode) THEN data[1].iataCode ELSE Undefined

\* data.data.find(d => d?.iataCode)?.iataCode ?? null
FirstLocation(data) ==
  IF \E i \in 1..Len(data) : Truthy(data[i].iataCode)
  THEN data[CHOOSE i \in 1..Len(data) :
              /\ Truthy(data[i].iataCode)
              /\ \A j \in 1..(i - 1) : ~Truthy(data[j].iataCode)].iataCode
  ELSE Undefined

(***************************************************************************)
(* The provider's answers.                                                 *)
(***************************************************************************)
\* "ok": a success status and a JSON body; "status": a non-success status;
\* "reject": fetch rejects; "badjson": a success status, res.json() throws
Outcomes == {"ok", "status", "reject", "badjson"}

\* the `data` of a lookup response: entries with or without an iataCode
LookupEntries == {[iataCode |-> Undefined], [iataCode |-> "LIS"], [iataCode |-> "OPO"]}
LookupData ==
  {<<>>} \cup {<<e>> : e \in LookupEntries}
         \cup {d \in {<<e1, e2>> : e1 \in LookupEntries, e2 \in LookupEntries} :
                 d[1] # d[2]}

(***************************************************************************)
(* parseISODurationToMinutes. A duration is a sequence of characters.      *)
(***************************************************************************)
Digits == <<"0", "1", "2", "3", "4", "5", "6", "7", "8", "9">>

IsDigit(c) == \E k \in 1..Len(Digits) : Digits[k] = c

DigitValue(c) == (CHOOSE k \in 1..Len(Digits) : Digits[k] = c) - 1

\* parseInt(str, 10) of a string of digits
RECURSIVE ParseInt(_)
ParseInt(str) ==
  IF str = <<>> THEN 0
  ELSE ParseInt(SubSeq(str, 1, Len(str) - 1)) * 10 + DigitValue(str[Len(str)])

\* \d+ at position i: the position after the run of digits (i when none)
RECURSIVE DigitsEnd(_, _)
DigitsEnd(str, i) ==
  IF i <= Len(str) /\ IsDigit(str[i]) THEN DigitsEnd(str, i + 1) ELSE i

\* the letter at position i, whatever its case (the regex has the i flag)
LetterAt(str, i, letter) == i <= Len(str) /\ UpperChar(str[i]) = letter

\* (?:\d+<letter>)? at position i: [next, digits], digits <<>> when the
\* group matched nothing. Giving the digits back never helps what follows:
\* it would have to match at a digit.
OptionalGroup(str, i, letter) ==
  LET e == DigitsEnd(str, i) IN
    IF e > i /\ LetterAt(str, e, letter)
    THEN [next |-> e + 1, digits |-> SubSeq(str, i, e - 1)]
    ELSE [next |-> i, digits |-> <<>>]

\* faulty variant: the pattern without the date part, PT(?:(\d+)H)?(?:(\d+)M)?
MatchAtWithoutDatePart(str, i) ==
  IF ~(LetterAt(str, i, "P") /\ LetterAt(str, i + 1, "T"))
  THEN [found |-> FALSE]
  ELSE LET h == OptionalGroup(str, i + 2, "H")
           m == OptionalGroup(str, h.next, "M")
       IN [found |-> TRUE, hours |-> h.digits, minutes |-> m.digits]

\* P(?:\d+Y)?(?:\d+M)?(?:\d+D)?T(?:(\d+)H)?(?:(\d+)M)? tried at position i
MatchAt(str, i) ==
  IF ~LetterAt(str, i, "P") THEN [found |-> FALSE]
  ELSE LET y == OptionalGroup(str, i + 1, "Y")
           mo == OptionalGroup(str, y.next, "M")
           d == OptionalGroup(str, mo.next, "D")
       IN IF ~LetterAt(str, d.next, "T") THEN [found |-> FALSE]
          ELSE LET h == OptionalGroup(str, d.next + 1, "H")
                   m == OptionalGroup(str, h.next, "M")
               IN [found |-> TRUE, hours |-> h.digits, minutes |-> m.digits]

\* RegExp.prototype.exec: the match at the first position that has one
RECURSIVE ExecFrom(_, _)
ExecFrom(str, i) ==
  IF i > Len(str) THEN [found |-> FALSE]
  ELSE IF MatchAt(str, i).found THEN MatchAt(str, i)
  ELSE ExecFrom(str, i + 1)

Exec(str) == ExecFrom(str, 1)

\* `!dur` holds of a missing duration and of the empty string: both are <<>>.
\* The result is number | undefined: {n} for a number n, {} for undefined.
parseISODurationToMinutes(dur) ==
  IF dur = <<>> THEN {}
  ELSE LET match == Exec(dur) IN
         IF ~match.found THEN {}
         ELSE LET hours == IF match.hours # <<>> THEN ParseInt(match.hours) ELSE 0
                  minutes == IF match.minutes # <<>> THEN ParseInt(match.minutes) ELSE 0
              IN {hours * 60 + minutes}

\* a ?? b of a number | undefined a
Coalesce(a, b) == IF a = {} THEN b ELSE CHOOSE n \in a : TRUE

\* stops: Math.max(0, segments.length - 1)
mapAmadeusOfferToFlightOption(offer) ==
  [id |-> offer.id,
   durationMinutes |-> Coalesce(parseISODurationToMinutes(offer.itineraries[1].duration), 0),
   stops |-> IF offer.itineraries[1].segments > 1 THEN offer.itineraries[1].segments - 1 ELSE 0,
   cabin |-> "economy",
   priceUSD |-> offer.price.total]

\* n flight offers of a flight-offers response, each of duration d
RawFlightOffers(n, d) ==
  [i \in 1..n |-> [id |-> "AM-" \o ToString(i),
                   itineraries |-> <<[duration |-> d, segments |-> 1 + (i % 2)]>>,
                   price |-> [total |-> IF i % 2 = 1 THEN 700 ELSE 300]]]

\* offers.slice(0, 10).map(mapAmadeusOfferToFlightOption)
ProviderFlights(offers) ==
  MapSeq(Take(offers, FlightCap), mapAmadeusOfferToFlightOption)

\* Math.round of a non-negative amount kept in cents
Round(cents) == (cents + 50) \div 100

\* n hotel offers as mapAmadeusHotelOfferToHotelOption maps them, totals in cents
ProviderHotels(n) ==
  [i \in 1..n |-> [id |-> "HT-" \o ToString(i) \o "-0", totalCents |-> IF i % 2 = 1 THEN 70050 ELSE 29949]]

\* .map(totalUSD: Math.round(totalUSD)).filter(budgetUSD), then slice(0, 10)
MappedHotels(list, p) ==
  LET Rounded(h) == [id |-> h.id, totalUSD |-> Round(h.totalCents)]
      Within(h) == WithinCeiling(h.totalUSD, p.budgetUSD)
  IN Take(SelectSeq(MapSeq(list, Rounded), Within), HotelCap)

(***************************************************************************)
(* The inputs of the checked calls.                                        *)
(***************************************************************************)
\* The durations of the checked responses: P, a date part, and a time part
\* T<h>H<m>M with either component left out, or no time part at all; in
\* capitals or in small letters; and a missing or empty duration (<<>>).
RECURSIVE ToDigits(_)
ToDigits(n) ==
  IF n < 10 THEN <<Digits[n + 1]>> ELSE ToDigits(n \div 10) \o <<Digits[(n % 10) + 1]>>

DateParts == {<<>>, <<"1", "D">>, <<"2", "M">>}
\* hours, minutes: -1 for a component left out
DurationParts ==
  [date : DateParts, timed : {TRUE}, hours : {-1, 1, 10},
   minutes : {-1, 30, 45}, small : BOOLEAN]
  \cup [date : DateParts, timed : {FALSE}, hours : {-1},
        minutes : {-1}, small : BOOLEAN]

ToSmall(c) ==
  IF IsUpperLetter(c) THEN LowerLetters[CHOOSE k \in 1..26 : UpperLetters[k] = c] ELSE c

FormatDuration(parts) ==
  LET capitals ==
        <<"P">> \o parts.date
        \o (IF parts.timed THEN <<"T">> ELSE <<>>)
        \o (IF parts.hours >= 0 THEN ToDigits(parts.hours) \o <<"H">> ELSE <<>>)
        \o (IF parts.minutes >= 0 THEN ToDigits(parts.minutes) \o <<"M">> ELSE <<>>)
  IN IF parts.small THEN MapSeq(capitals, ToSmall) ELSE capitals

Durations == {<<>>} \cup {FormatDuration(parts) : parts \in DurationParts}

\* The flight-offers responses of the checked runs: up to MaxOffers offers of
\* one duration, and up to MaxTimedOffers offers of each of the durations.
FlightResponses ==
  {RawFlightOffers(n, <<"P", "T", "2", "H", "5", "M">>) : n \in 0..MaxOffers}
  \cup {RawFlightOffers(n, d) : n \in 1..MaxTimedOffers, d \in Durations}

Credentials == {Undefined, "", "id"}
MockFlags == {Undefined, "true", "TRUE", "false", "1"}
Envs ==
  [AMADEUS_CLIENT_ID : Credentials, AMADEUS_CLIENT_SECRET : Credentials,
   DISABLE_TRAVEL_MOCKS : MockFlags]

Ceilings == {0, 100, 400, 450, 500}
Cities ==
  {<<>>, <<" ">>, <<"L", "I", "S">>, <<" ", "l", "i", "s", " ">>,
   <<"L", "i", "s", "b", "o", "n">>, <<"N", "Y", "1">>}

FlightSearches ==
  [fn : {"searchFlights"}, origin : {"SFO", "JFK"}, destination : {"LIS"},
   maxPrice : Ceilings, cabin : {Undefined, "business"}]
HotelSearches ==
  [fn : {"searchHotels"}, budgetUSD : Ceilings, city : Cities,
   checkIn : {7}, checkOut : {6, 12}]

TravelInit ==
  /\ GateInit
  /\ ExchangeIdle
  /\ ValidationIdle
  /\ env \in Envs
  /\ search \in FlightSearches \cup HotelSearches
  /\ tpc = "start"
  /\ cityCode = Undefined
  /\ requests = <<>>
  /\ returned = <<>>
  /\ failedAt = NoFailure
  /\ thrown = NothingThrown
  /\ responses = <<>>

(***************************************************************************)
(* searchFlights / searchHotels, one step per awaited request.             *)
(***************************************************************************)
\* faulty variant: resolveCityToCode throws on a non-success status as well
ThrowsOnStatusAlsoAtLocations(point) == point \in {"token", "locations"}

\* faulty variant: getAmadeusAccessToken returns on a non-success status too
ThrowsOnStatusNowhere(point) == FALSE

\* a non-success status is thrown by getAmadeusAccessToken only
ThrowsOnStatus(point) == point = "token"

\* The failure leaves the function as an exception: no fetch is in a try
\* block, and of the res.json() calls only the cities lookup's is.
Propagates(point, outcome) ==
  \/ outcome = "reject"
  \/ outcome = "badjson" /\ point # "cities"
  \/ outcome = "status" /\ ThrowsOnStatus(point)

Throw(point, outcome) ==
  /\ tpc' = "threw"
  /\ thrown' = [at |-> point, how |-> outcome]
  /\ UNCHANGED <<env, search, cityCode, requests, returned, failedAt>>

Return(list) ==
  /\ tpc' = "done"
  /\ returned' = list
  /\ UNCHANGED <<env, search, cityCode, requests, thrown>>

FallBack(point) ==
  /\ failedAt' = point
  /\ Return(FallbackResult(point))

\* the answer to the awaited request; only a success status with a JSON body
\* carries data
Received(request, outcome, data) ==
  responses' = Append(responses, [request |-> request, outcome |-> outcome,
                                  data |-> IF outcome = "ok" THEN data ELSE <<>>])

Send(request, code) ==
  /\ tpc' = request
  /\ requests' = Append(requests, request)
  /\ cityCode' = code
  /\ UNCHANGED <<env, search, returned, failedAt, thrown>>

\* the entry of searchFlights / searchHotels up to the token request
StartSearch ==
  /\ tpc = "start"
  /\ IF ~HasAmadeus(env) /\ ~DisableMocks(env)
     THEN Return(MockOffersFor(search)) /\ UNCHANGED failedAt
     ELSE IF ~HasAmadeus(env) /\ DisableMocks(env)
     THEN Return(<<>>) /\ UNCHANGED failedAt
     ELSE Send("token", cityCode)
  /\ UNCHANGED responses
  /\ UNCHANGED <<gateVars, exchangeVars, validationVars>>

\* getAmadeusAccessToken returns or throws; then the flight search request,
\* or resolveCityToCode up to its first request
TokenResponse(outcome) ==
  /\ tpc = "token"
  /\ IF Propagates("token", outcome) THEN Throw("token", outcome)
     ELSE IF outcome # "ok" THEN FallBack("token")
     ELSE IF search.fn = "searchFlights" THEN Send("flightOffers", cityCode)
     ELSE LET trimmed == Trim(search.city) IN
            IF trimmed = <<>> THEN FallBack("cityResolution")
            ELSE IF IsThreeLetterCode(ToUpperCase(trimmed))
            THEN Send("hotelsByCity", ToUpperCase(trimmed))
            ELSE Send("cities", cityCode)
  /\ Received("token", outcome, <<>>)
  /\ UNCHANGED <<gateVars, exchangeVars, validationVars>>

\* resolveCityToCode: the cities lookup, then the locations lookup
CitiesResponse(outcome, data) ==
  /\ tpc = "cities"
  /\ IF Propagates("cities", outcome) THEN Throw("cities", outcome)
     ELSE IF outcome = "ok" /\ FirstCity(data) # Undefined
     THEN Send("hotelsByCity", FirstCity(data))
     ELSE Send("locations", cityCode)
  /\ Received("cities", outcome, data)
  /\ UNCHANGED <<gateVars, exchangeVars, validationVars>>

LocationsResponse(outcome, data) ==
  /\ tpc = "locations"
  /\ IF Propagates("locations", outcome) THEN Throw("locations", outcome)
     ELSE IF outcome # "ok" \/ FirstLocation(data) = Undefined
     THEN FallBack("cityResolution")
     ELSE Send("hotelsByCity", FirstLocation(data))
  /\ Received("locations", outcome, data)
  /\ UNCHANGED <<gateVars, exchangeVars, validationVars>>

\* searchHotels: the hotel ids of the city
HotelsByCityResponse(outcome, nIds) ==
  /\ tpc = "hotelsByCity"
  /\ IF Propagates("hotelsByCity", outcome) THEN Throw("hotelsByCity", outcome)
     ELSE IF outcome # "ok" THEN FallBack("hotelsByCity")
     ELSE IF nIds = 0 THEN FallBack("noHotelIds")
     ELSE Send("hotelOffers", cityCode)
  /\ Received("hotelsByCity", outcome, [i \in 1..nIds |-> "H" \o ToString(i)])
  /\ UNCHANGED <<gateVars, exchangeVars, validationVars>>

HotelOffersResponse(outcome, n) ==
  /\ tpc = "hotelOffers"
  /\ IF Propagates("hotelOffers", outcome) THEN Throw("hotelOffers", outcome)
     ELSE IF outcome # "ok" THEN FallBack("hotelSearch")
     ELSE Return(MappedHotels(ProviderHotels(n), search)) /\ UNCHANGED failedAt
  /\ Received("hotelOffers", outcome, ProviderHotels(n))
  /\ UNCHANGED <<gateVars, exchangeVars, validationVars>>

\* searchFlights: the flight-offers response
FlightOffersResponse(outcome, offers) ==
  /\ tpc = "flightOffers"
  /\ IF Propagates("flightOffers", outcome) THEN Throw("flightOffers", outcome)
     ELSE IF outcome # "ok" THEN FallBack("flightSearch")
     ELSE Return(ProviderFlights(offers)) /\ UNCHANGED failedAt
  /\ Received("flightOffers", outcome, offers)
  /\ UNCHANGED <<gateVars, exchangeVars, validationVars>>

TravelNext ==
  \/ StartSearch
  \/ \E o \in Outcomes : TokenResponse(o)
  \/ \E o \in Outcomes, data \in LookupData : CitiesResponse(o, data)
  \/ \E o \in Outcomes, data \in LookupData : LocationsResponse(o, data)
  \/ \E o \in Outcomes, nIds \in 0..2 : HotelsByCityResponse(o, nIds)
  \/ \E o \in Outcomes, n \in 0..MaxOffers : HotelOffersResponse(o, n)
  \/ \E o \in Outcomes, offers \in FlightResponses : FlightOffersResponse(o, offers)

SpecTravel == TravelInit /\ [][TravelNext]_vars

(***************************************************************************)
(* Properties of the Data-Source Adapter (specification SpecTravel).       *)
(***************************************************************************)
CredentialAbsent ==
  \/ env.AMADEUS_CLIENT_ID \in {Undefined, ""}
  \/ env.AMADEUS_CLIENT_SECRET \in {Undefined, ""}

\* DISABLE_TRAVEL_MOCKS is "true", in any case of the letters
MocksDisabled == env.DISABLE_TRAVEL_MOCKS \in {"true", "TRUE", "True"}

Ids(list) == {list[i].id : i \in 1..Len(list)}

\* the ids of the built-in mock offers that pass the search's ceiling
MockIdsWithinCeiling ==
  IF search.fn = "searchFlights"
  THEN {m.id : m \in {f \in {mockFlights[i] : i \in 1..Len(mockFlights)} :
                        search.maxPrice = 0 \/ f.priceUSD <= search.maxPrice}}
  ELSE {m.id : m \in {h \in {mockHotels[i] : i \in 1..Len(mockHotels)} :
                        \/ search.budgetUSD = 0
                        \/ h.pricePerNightUSD * Nights(search) <= search.budgetUSD}}

\* the list returned is the mock offers (those within the ceiling), each once
ReturnedMocks ==
  /\ Ids(returned) = MockIdsWithinCeiling
  /\ Len(returned) = Cardinality(MockIdsWithinCeiling)

\* C8: with the client id or the secret missing, the call is over at once
\* without any provider request; it returns the mock offers when mocks are
\* not disabled and the empty list when they are.
NoCredentialMockOrEmpty ==
  (tpc # "start" /\ CredentialAbsent) =>
    /\ tpc = "done"
    /\ requests = <<>>
    /\ IF MocksDisabled THEN returned = <<>> ELSE ReturnedMocks

SecretMissingMocksReturned ==
  /\ tpc = "done"
  /\ env.AMADEUS_CLIENT_ID = "id"
  /\ env.AMADEUS_CLIENT_SECRET = ""
  /\ ~MocksDisabled
  /\ Len(returned) = 2
  /\ requests = <<>>

\* C9: with a credential, a call that ended at a failure point (a search
\* request answered with a non-success status, a city that resolves to
\* nothing, the hotels-by-city request answered with a non-success status or
\* with no hotel id) returned the mock offers when mocks are not disabled and
\* the empty list when they are, whichever the failure point; and no
\* non-success status of a lookup or search request ends the call otherwise.
FailurePoints ==
  {"flightSearch", "cityResolution", "hotelsByCity", "noHotelIds", "hotelSearch"}

LookupAndSearchRequests ==
  {"cities", "locations", "hotelsByCity", "hotelOffers", "flightOffers"}

FailureFallsBackTheSameWay ==
  /\ (tpc = "done" /\ failedAt # NoFailure) =>
       /\ failedAt \in FailurePoints
       /\ ~CredentialAbsent
       /\ IF MocksDisabled THEN returned = <<>> ELSE ReturnedMocks
  /\ thrown.how = "status" => thrown.at \notin LookupAndSearchRequests

CityUnresolvedMocksDisabled ==
  /\ tpc = "done"
  /\ failedAt = "cityResolution"
  /\ MocksDisabled
  /\ returned = <<>>
  /\ Len(requests) = 3

TokenFailureIsFatal ==
  /\ failedAt # "token"
  /\ thrown.at = "token" =>
       /\ tpc = "threw"
       /\ returned = <<>>
       /\ failedAt = NoFailure
       /\ requests = <<"token">>

TokenStatusEndedHotelSearch ==
  /\ search.fn = "searchHotels"
  /\ ~MocksDisabled
  /\ tpc = "threw"
  /\ thrown = [at |-> "token", how |-> "status"]
  /\ requests = <<"token">>

\* the price of a returned offer: priceUSD of a flight, totalUSD of a hotel
OfferPrice(offer) ==
  IF search.fn = "searchFlights" THEN offer.priceUSD ELSE offer.totalUSD

\* the ceiling the search was given (0: none): maxPrice or budgetUSD
SuppliedCeiling ==
  IF search.fn = "searchFlights" THEN search.maxPrice ELSE search.budgetUSD

\* C12 as stated: whatever the configuration and the provider's answers, a
\* completed search returned at most ten offers, and with a ceiling supplied
\* every returned offer's price is at most the ceiling.
AtMostTenAndWithinCeiling ==
  tpc = "done" =>
    /\ Len(returned) <= 10
    /\ SuppliedCeiling # 0 =>
         \A i \in 1..Len(returned) : OfferPrice(returned[i]) <= SuppliedCeiling

\* a completed search of flights from SFO to LIS with the client id or the
\* secret missing and the mocks not disabled
MockFlightSearchDone ==
  /\ search.fn = "searchFlights"
  /\ search.origin = "SFO"
  /\ search.destination = "LIS"
  /\ CredentialAbsent
  /\ ~MocksDisabled
  /\ tpc = "done"

ReturnedWithinMaxPrice ==
  search.maxPrice # 0 =>
    \A i \in 1..Len(returned) : returned[i].priceUSD <= search.maxPrice

\* C13 as stated: with no credential the search returns exactly the two
\* mock flights FL-1 and FL-2, and both cost at most the supplied ceiling,
\* whatever the ceiling.
BothMockFlightsUnderAnyCeiling ==
  MockFlightSearchDone =>
    /\ [i \in 1..Len(returned) |-> returned[i].id] = <<"FL-1", "FL-2">>
    /\ ReturnedWithinMaxPrice

\* C13, amended: with no credential (and mocks not disabled) the search
\* returns, without any request, the mock flights that cost at most the
\* supplied ceiling, in their built-in order: FL-1 (450) and FL-2 (380) with no
\* ceiling or one of at least 450, FL-2 alone under a ceiling from 380 to 449,
\* none under a lower one; every returned flight costs at most the ceiling.
MockFlightsWithinCeilingOnly ==
  MockFlightSearchDone =>
    /\ requests = <<>>
    /\ [i \in 1..Len(returned) |-> returned[i].id] =
         IF search.maxPrice = 0 \/ search.maxPrice >= 450 THEN <<"FL-1", "FL-2">>
         ELSE IF search.maxPrice >= 380 THEN <<"FL-2">>
         ELSE <<>>
    /\ ReturnedWithinMaxPrice

OnlyCheaperMockFlightReturned ==
  /\ MockFlightSearchDone
  /\ search.maxPrice = 400
  /\ Len(returned) = 1
  /\ returned[1].id = "FL-2"
  /\ returned[1].priceUSD = 380

\* resolveCityToCode has returned: a code (the hotels-by-city request was
\* sent with it) or null (the search fell back at the city resolution)
ResolutionOver ==
  /\ search.fn = "searchHotels"
  /\ \/ \E i \in 1..Len(requests) : requests[i] = "hotelsByCity"
     \/ failedAt = "cityResolution"

LookupsSent == {requests[i] : i \in 1..Len(requests)} \cap {"cities", "locations"}

\* the answer received to a lookup request (at most one of each is sent)
AnswerTo(request) ==
  responses[CHOOSE i \in 1..Len(responses) : responses[i].request = request]

HasCode(entry) == entry.iataCode \notin {Undefined, ""}

\* The code comes from the lookups: the first entry of the primary (cities)
\* answer when it carries a code; otherwise the fallback (locations) lookup is
\* sent and the code is that of its first entry carrying one; null when
\* neither yields a code. The fallback is not sent when the primary yields one.
FirstMatchOfLookup ==
  /\ Len(requests) >= 2 /\ requests[2] = "cities"
  /\ LET c == AnswerTo("cities") IN
       IF c.outcome = "ok" /\ c.data # <<>> /\ HasCode(c.data[1])
       THEN /\ cityCode = c.data[1].iataCode
            /\ LookupsSent = {"cities"}
       ELSE /\ LookupsSent = {"cities", "locations"}
            /\ LET l == AnswerTo("locations")
                   coded == {i \in 1..Len(l.data) : HasCode(l.data[i])}
               IN IF l.outcome = "ok" /\ coded # {}
                  THEN \E i \in coded :
                         /\ \A j \in coded : i <= j
                         /\ cityCode = l.data[i].iataCode
                  ELSE failedAt = "cityResolution"

\* C14 as stated: an input that matches the pattern of three capital letters
\* is returned unchanged without a lookup, and every other non-empty input
\* (read as: not blank) is resolved through the lookups, first match winning.
OnlyExactCodesSkipLookup ==
  ResolutionOver =>
    /\ IsThreeLetterCode(search.city) => (cityCode = search.city /\ LookupsSent = {})
    /\ (Trim(search.city) # <<>> /\ ~IsThreeLetterCode(search.city)) => FirstMatchOfLookup

\* C14, amended: the input is trimmed first. Empty after trimming, it resolves
\* to no code without a lookup; three letters in either case after trimming,
\* it is returned trimmed and in capitals without a lookup (unchanged when it
\* was a code in capitals already); anything else is resolved through the
\* lookups, first match winning.
TrimmedCodeInAnyCaseSkipsLookup ==
  ResolutionOver =>
    LET trimmed == Trim(search.city) IN
      IF trimmed = <<>>
      THEN failedAt = "cityResolution" /\ LookupsSent = {}
      ELSE IF Len(trimmed) = 3 /\ \A i \in 1..3 :
                \E k \in 1..26 : trimmed[i] \in {UpperLetters[k], LowerLetters[k]}
      THEN /\ LookupsSent = {}
           /\ Len(cityCode) = 3
           /\ \A i \in 1..3 : \E k \in 1..26 :
                 /\ trimmed[i] \in {UpperLetters[k], LowerLetters[k]}
                 /\ cityCode[i] = UpperLetters[k]
           /\ IsThreeLetterCode(search.city) => cityCode = search.city
      ELSE FirstMatchOfLookup

ResolvedBySecondEntryOfFallback ==
  /\ ResolutionOver
  /\ search.city = <<"L", "i", "s", "b", "o", "n">>
  /\ LookupsSent = {"cities", "locations"}
  /\ AnswerTo("cities").outcome = "ok"
  /\ AnswerTo("cities").data = <<[iataCode |-> Undefined], [iataCode |-> "LIS"]>>
  /\ AnswerTo("locations").data = <<[iataCode |-> Undefined], [iataCode |-> "OPO"]>>
  /\ cityCode = "OPO"

\* the flight offers of the flight-offers response a completed search mapped
MappedOffers ==
  IF /\ search.fn = "searchFlights" /\ tpc = "done" /\ failedAt = NoFailure
     /\ \E i \in 1..Len(responses) : responses[i].request = "flightOffers"
  THEN AnswerTo("flightOffers").data
  ELSE <<>>

\* the durations P<date part>T<h>H<m>M, each with hours * 60 + minutes, a
\* component left out counting as zero, and 0 when there is no time part
ExpectedMinutes ==
  {[duration |-> FormatDuration(parts),
    minutes |-> IF parts.timed
                THEN (IF parts.hours < 0 THEN 0 ELSE parts.hours) * 60
                     + (IF parts.minutes < 0 THEN 0 ELSE parts.minutes)
                ELSE 0] : parts \in DurationParts}

\* C15: an offer whose duration is P<date part>T<h>H<m>M is given
\* hours * 60 + minutes minutes, a component left out counting as zero
\* ("PT10H30M": 630, "PT45M": 45); an offer whose duration has no time part,
\* or no duration at all, is given 0.
DurationIsHoursTimesSixtyPlusMinutes ==
  \A i \in 1..Len(returned) : i <= Len(MappedOffers) =>
    LET dur == MappedOffers[i].itineraries[1].duration
        got == returned[i].durationMinutes
    IN /\ dur = <<>> => got = 0
       /\ \A expected \in ExpectedMinutes : dur = expected.duration => got = expected.minutes
       /\ dur = <<"P", "T", "1", "0", "H", "3", "0", "M">> => got = 630
       /\ dur = <<"P", "T", "4", "5", "M">> => got = 45

DayAndHourOfferMapped ==
  /\ Len(MappedOffers) = 2
  /\ MappedOffers[2].itineraries[1].duration = <<"p", "1", "d", "t", "1", "0", "h", "4", "5", "m">>
  /\ returned[2].durationMinutes = 645

(***************************************************************************)
(* The Conversation Orchestrator at the grain of its messages: Chat of     *)
(* server.ts. An exchange is the pass over this.messages, then streamText  *)
(* with maxSteps; executeTask appends a message of its own.                *)
(***************************************************************************)
MaxMessages == 3

\* streamText({ ..., maxSteps: 10 })
maxSteps == 10

\* The turns of a conversation.
UserTurn(content) ==
  [role |-> "user", content |-> content, toolCallId |-> 0, toolName |-> "none",
   args |-> "none", result |-> NoResult]
TextTurn ==
  [role |-> "assistant", content |-> "text", toolCallId |-> 0, toolName |-> "none",
   args |-> "none", result |-> NoResult]
CallTurn(id, t, a) ==
  [role |-> "assistant", content |-> "", toolCallId |-> id, toolName |-> t,
   args |-> a, result |-> NoResult]
ResultTurn(id, t, a, result) ==
  [role |-> "tool", content |-> "", toolCallId |-> id, toolName |-> t,
   args |-> a, result |-> result]

\* `Running scheduled task: ${description}`
TaskContent == "Running scheduled task: description"

IsCall(turn) == turn.role = "assistant" /\ turn.toolCallId # 0

\* the result recorded against a call id in msgs, NoResult when there is none
RecordedResult(msgs, id) ==
  IF \E i \in 1..Len(msgs) : msgs[i].role = "tool" /\ msgs[i].toolCallId = id
  THEN msgs[CHOOSE i \in 1..Len(msgs) :
              msgs[i].role = "tool" /\ msgs[i].toolCallId = id].result
  ELSE NoResult

\* the decision the caller's table holds for a call id
DecisionFor(id) ==
  IF \E a \in approvals : a.id = id
  THEN (CHOOSE a \in approvals : a.id = id).decision
  ELSE NoDecision

\* generateId: a call id not used in the conversation yet
NextCallId ==
  1 + Cardinality({i \in 1..Len(messages) : IsCall(messages[i])})
    + Cardinality({i \in 1..Len(response) : IsCall(response[i])})

\* the calls of msgs the pass invokes the operation of
InvokedIn(msgs) ==
  {msgs[i].toolCallId : i \in {j \in 1..Len(msgs) :
      /\ IsCall(msgs[j])
      /\ GateInvokes([toolName |-> msgs[j].toolName, args |-> msgs[j].args],
                     DecisionFor(msgs[j].toolCallId),
                     RecordedResult(msgs, msgs[j].toolCallId))}}

\* The results the pass records for the calls of msgs from position i on, in
\* the order of the calls; fails: the calls whose operation throws.
RECURSIVE GateResults(_, _, _)
GateResults(msgs, i, fails) ==
  IF i > Len(msgs) THEN <<>>
  ELSE IF ~IsCall(msgs[i]) THEN GateResults(msgs, i + 1, fails)
  ELSE LET id == msgs[i].toolCallId
           recorded == RecordedResult(msgs, id)
           outcome == GateOutcome([toolName |-> msgs[i].toolName, args |-> msgs[i].args],
                                  DecisionFor(id), recorded, id \in fails)
       IN (IF outcome # recorded
           THEN <<ResultTurn(id, msgs[i].toolName, msgs[i].args, outcome)>>
           ELSE <<>>) \o GateResults(msgs, i + 1, fails)

\* processToolCalls({ messages, ... }): the messages with the results recorded
ProcessedMessages(msgs, fails) == msgs \o GateResults(msgs, 1, fails)

\* the model calls (steps) of the exchange in progress
Steps == Cardinality({i \in 1..Len(response) : response[i].role = "assistant"})

\* faulty variant: the ceiling is tested with <= for <
MayStepOffByOne(n) == n <= maxSteps

\* streamText issues another model call while fewer than maxSteps are made
MayStep(n) == n < maxSteps

\* the last step asked for tools and every call of it has its result: the
\* loop of streamText goes on; it ends after a text or a call without result
LoopGoesOn ==
  IF response = <<>> THEN TRUE ELSE response[Len(response)].role = "tool"

\* faulty variant: streamText is given this.messages, not the processed ones
OnChatMessageUnprocessed(userMessage, fails) ==
  /\ xpc = "idle"
  /\ Len(messages) < MaxMessages
  /\ LET received == IF userMessage THEN Append(messages, UserTurn("chat")) ELSE messages IN
       /\ received # <<>>
       /\ fails \subseteq InvokedIn(received)
       /\ messages' = ProcessedMessages(received, fails)
       /\ modelInput' = received
  /\ xpc' = "streaming"
  /\ response' = <<>>
  /\ cancelledAt' = -1
  /\ UNCHANGED approvals
  /\ UNCHANGED <<gateVars, travelVars, validationVars>>

\* A chat request (with a new user message, or the conversation as it is
\* after a decision), then onChatMessage: the pass, then streamText with the
\* processed messages. The results of the pass are recorded against their
\* calls in the conversation, as a turn after the turns it holds.
OnChatMessageExchange(userMessage, fails) ==
  /\ xpc = "idle"
  /\ Len(messages) < MaxMessages
  /\ LET received == IF userMessage THEN Append(messages, UserTurn("chat")) ELSE messages IN
       /\ received # <<>>
       /\ fails \subseteq InvokedIn(received)
       /\ messages' = ProcessedMessages(received, fails)
       /\ modelInput' = ProcessedMessages(received, fails)
  /\ xpc' = "streaming"
  /\ response' = <<>>
  /\ cancelledAt' = -1
  /\ UNCHANGED approvals
  /\ UNCHANGED <<gateVars, travelVars, validationVars>>

\* One step of streamText: the model answers with a text, with a call of a
\* tool that has an execute function (run at once, result attached), or with a
\* call of a tool that has none. The output is written to the data stream;
\* nothing in onChatMessage reads _options.abortSignal.
ModelStep(t) ==
  /\ xpc = "streaming"
  /\ LoopGoesOn
  /\ MayStep(Steps)
  /\ response' =
       IF t = "none" THEN Append(response, TextTurn)
       ELSE IF HasExecute(t)
       THEN response \o <<CallTurn(NextCallId, t, "argsA"),
                          ResultTurn(NextCallId, t, "argsA", OperationResult(t, "argsA"))>>
       ELSE Append(response, CallTurn(NextCallId, t, "argsA"))
  /\ UNCHANGED <<messages, approvals, xpc, modelInput, cancelledAt>>
  /\ UNCHANGED <<gateVars, travelVars, validationVars>>

\* streamText is done (a text, a call waiting for its decision, or maxSteps
\* steps): onFinish records the response after the messages
FinishExchange ==
  /\ xpc = "streaming"
  /\ response # <<>>
  /\ ~LoopGoesOn \/ ~MayStep(Steps)
  /\ messages' = messages \o response
  /\ response' = <<>>
  /\ xpc' = "idle"
  /\ cancelledAt' = -1
  /\ UNCHANGED <<approvals, modelInput>>
  /\ UNCHANGED <<gateVars, travelVars, validationVars>>

\* the caller's abort signal fires during the exchange
Cancel ==
  /\ xpc = "streaming"
  /\ cancelledAt = -1
  /\ cancelledAt' = Len(response)
  /\ UNCHANGED <<messages, approvals, xpc, modelInput, response>>
  /\ UNCHANGED <<gateVars, travelVars, validationVars>>

\* the card of a call: Approve or Reject, offered while the call of a
\* confirmation-required tool has neither result nor decision
Decide(id, button) ==
  /\ \E i \in 1..Len(messages) :
       /\ IsCall(messages[i])
       /\ messages[i].toolCallId = id
       /\ messages[i].toolName \in ToolsRequiringConfirmation
  /\ RecordedResult(messages, id) = NoResult
  /\ DecisionFor(id) = NoDecision
  /\ approvals' = approvals \cup {[id |-> id, decision |-> ButtonResult(button)]}
  /\ UNCHANGED <<messages, xpc, modelInput, response, cancelledAt>>
  /\ UNCHANGED <<gateVars, travelVars, validationVars>>

\* faulty variant: saveMessages([message]) for saveMessages([...this.messages, message])
ExecuteTaskReplacing ==
  /\ Len(messages) < MaxMessages
  /\ messages' = <<UserTurn(TaskContent)>>
  /\ UNCHANGED <<approvals, xpc, modelInput, response, cancelledAt>>
  /\ UNCHANGED <<gateVars, travelVars, validationVars>>

\* executeTask: saveMessages([...this.messages, { role: "user", content }])
ExecuteTask ==
  /\ Len(messages) < MaxMessages
  /\ messages' = Append(messages, UserTurn(TaskContent))
  /\ UNCHANGED <<approvals, xpc, modelInput, response, cancelledAt>>
  /\ UNCHANGED <<gateVars, travelVars, validationVars>>

\* the tools the model asks for in the checked exchanges
ExchangeTools == {"searchFlights", "bookFlight"}

ExchangeNext ==
  \/ \E userMessage \in BOOLEAN, fails \in SUBSET (1..MaxMessages) :
       OnChatMessageExchange(userMessage, fails)
  \/ \E t \in ExchangeTools \cup {"none"} : ModelStep(t)
  \/ FinishExchange
  \/ Cancel
  \/ \E id \in 1..MaxMessages, b \in {"Approve", "Reject"} : Decide(id, b)
  \/ ExecuteTask

SpecExchange == Init /\ [][ExchangeNext]_vars

\* Each model call awaited returns, and the stream that is done is finished.
SpecExchangeFair ==
  /\ SpecExchange
  /\ WF_vars(\E t \in ExchangeTools \cup {"none"} : ModelStep(t))
  /\ WF_vars(FinishExchange)

(***************************************************************************)
(* Properties of the Conversation Orchestrator.                            *)
(***************************************************************************)
\* at most maxSteps model calls in the exchange, and none issued at the ceiling
StepsWithinCeiling ==
  /\ Steps <= 10
  /\ Steps = 10 => \A t \in ExchangeTools \cup {"none"} : ~ENABLED ModelStep(t)

\* C16: an exchange makes at most ten model calls, issues no model call once
\* the ceiling is reached, and so ends: an exchange that is streaming is
\* finished eventually, whatever the model asks for.
CeilingBoundsStepsAndExchangeEnds ==
  /\ []StepsWithinCeiling
  /\ (xpc = "streaming") ~> (xpc = "idle")

CeilingReachedWhileStreaming ==
  /\ xpc = "streaming"
  /\ Steps = 10
  /\ Len(response) = 20
  /\ response[20].role = "tool"

\* the turns recorded in the conversation are whole: a result names a call
\* recorded before it, and no turn is without a role
RecordedTurnsWhole ==
  \A i \in 1..Len(messages) :
    /\ messages[i].role \in {"user", "assistant", "tool"}
    /\ messages[i].role = "tool" =>
         \E j \in 1..(i - 1) : /\ IsCall(messages[j])
                               /\ messages[j].toolCallId = messages[i].toolCallId

\* C17: once the caller's cancellation signal has fired during an exchange,
\* nothing more is written to the exchange's stream (no further model output,
\* no further tool result), and the recorded conversation holds whole turns only.
NoOutputAfterCancellation ==
  /\ (xpc = "streaming" /\ cancelledAt >= 0) => Len(response) = cancelledAt
  /\ RecordedTurnsWhole

\* s is the beginning of t
StartsWith(t, s) == Len(s) <= Len(t) /\ SubSeq(t, 1, Len(s)) = s

\* the scheduled-task messages of msgs
TaskMessages(msgs) ==
  Cardinality({i \in 1..Len(msgs) : msgs[i] = UserTurn(TaskContent)})

\* a step keeps the history and writes after it, and a step that records a
\* scheduled task writes exactly its one user message
AppendsOnly ==
  /\ StartsWith(messages', messages)
  /\ TaskMessages(messages') > TaskMessages(messages) =>
       /\ messages' = Append(messages, UserTurn(TaskContent))
       /\ messages'[Len(messages')].role = "user"

\* C18: the conversation history is append-only: every step of an exchange,
\* of a decision and of executeTask leaves the history it found as the
\* beginning of the history it leaves (so the history at any earlier point is
\* a prefix of the history at every later one), and executeTask keeps every
\* message in order and appends exactly one user-role message.
HistoryIsAppendOnly == [][AppendsOnly]_vars

TaskAppendedAfterAnExchange ==
  /\ Len(messages) = 3
  /\ messages[1] = UserTurn("chat")
  /\ messages[2] = TextTurn
  /\ messages[3] = UserTurn(TaskContent)

\* the calls of confirmation-required tools in msgs that have a decision
DecidedCalls(msgs) ==
  {i \in 1..Len(msgs) : /\ IsCall(msgs[i])
                        /\ msgs[i].toolName \in ToolsRequiringConfirmation
                        /\ DecisionFor(msgs[i].toolCallId) # NoDecision}

\* the step that invokes the model: the model is given the conversation as the
\* pass left it, every decided call has its result in it (the denial for a
\* rejected one, the operation's result or its error payload for an approved
\* one), and no output of the exchange exists yet
InvokedWithReconciledMessages ==
  (xpc = "idle" /\ xpc' = "streaming") =>
    /\ modelInput' = messages'
    /\ response' = <<>>
    /\ \A i \in DecidedCalls(messages) :
         LET id == messages[i].toolCallId
             recorded == RecordedResult(modelInput', id)
         IN IF RecordedResult(messages, id) # NoResult
            THEN recorded = RecordedResult(messages, id)
            ELSE IF DecisionFor(id) = ApprovalNo
            THEN recorded.kind = "denied"
            ELSE /\ recorded.kind \in {"ok", "error"}
                 /\ recorded.tool = messages[i].toolName

\* C20: in every exchange the reconciliation pass is over before the model is
\* invoked and the model is invoked with the reconciled messages: the result
\* of a booking approved before the exchange, or the denial of a rejected one,
\* is in the model's input before any output of the exchange, and the input
\* stays what it was while the exchange streams.
PassBeforeModel ==
  /\ [][InvokedWithReconciledMessages]_vars
  /\ [][xpc = "streaming" /\ xpc' = "streaming" => modelInput' = modelInput]_vars
  /\ [](response # <<>> => xpc = "streaming")

ModelAnsweredAfterApprovedBooking ==
  /\ xpc = "streaming"
  /\ response # <<>>
  /\ Len(modelInput) = 3
  /\ IsCall(modelInput[2])
  /\ modelInput[2].toolName = "bookFlight"
  /\ modelInput[3].role = "tool"
  /\ modelInput[3].toolCallId = modelInput[2].toolCallId
  /\ modelInput[3].result = OperationResult("bookFlight", modelInput[2].args)

(***************************************************************************)
(* The parameter schemas of tools.ts and one tool call from the model's    *)
(* request to the operation: the arguments are parsed against the tool's   *)
(* schema, and the operation (execute, or the entry of `executions` after  *)
(* the approval) is given the parsed arguments.                            *)
(***************************************************************************)
MaxPassengers == 2

\* JSON values of an arguments object; a number is num, or num + 1/2 when it
\* is not whole
UndefinedValue ==
  [type |-> "undefined", text |-> "", num |-> 0, whole |-> TRUE, elems |-> <<>>]
Str(text) ==
  [type |-> "string", text |-> text, num |-> 0, whole |-> TRUE, elems |-> <<>>]
Num(n) ==
  [type |-> "number", text |-> "", num |-> n, whole |-> TRUE, elems |-> <<>>]
Half(n) ==
  [type |-> "number", text |-> "", num |-> n, whole |-> FALSE, elems |-> <<>>]
Arr(elems) ==
  [type |-> "array", text |-> "", num |-> 0, whole |-> TRUE, elems |-> elems]
Obj(name) ==
  [type |-> "object", text |-> "", num |-> 0, whole |-> TRUE, elems |-> <<name>>]
\* the elements: { firstName, lastName } and a string
Name(first, last) ==
  [type |-> "object", text |-> "", firstName |-> first, lastName |-> last]
Text(text) ==
  [type |-> "string", text |-> text, firstName |-> "", lastName |-> ""]

\* zod schemas; NoLimit: the check is not part of the schema
NoLimit == -1
ZBase ==
  [kind |-> "string", minLen |-> NoLimit, maxLen |-> NoLimit, int |-> FALSE,
   min |-> NoLimit, positive |-> FALSE, options |-> {}, elem |-> "none",
   optional |-> FALSE, default |-> UndefinedValue]
\* z.string(), z.string().min(a), z.string().min(a).max(b)
ZString(a, b) == [ZBase EXCEPT !.minLen = a, !.maxLen = b]
\* z.number().int().min(1)
ZIntMin1 == [ZBase EXCEPT !.kind = "number", !.int = TRUE, !.min = 1]
\* z.number().int().positive()
ZIntPositive == [ZBase EXCEPT !.kind = "number", !.int = TRUE, !.positive = TRUE]
\* z.enum([...])
ZEnum(options) == [ZBase EXCEPT !.kind = "enum", !.options = options]
\* z.array(z.object({ firstName: z.string().min(1), lastName: z.string().min(1) })).min(1)
ZNames == [ZBase EXCEPT !.kind = "array", !.elem = "name", !.minLen = 1]
\* z.array(z.string())
ZStrings == [ZBase EXCEPT !.kind = "array", !.elem = "string"]
\* z.object({ firstName: z.string().min(1), lastName: z.string().min(1) })
ZNameObject == [ZBase EXCEPT !.kind = "object", !.elem = "name"]
\* .optional()
Optional(z) == [z EXCEPT !.optional = TRUE]
\* .default(v)
Default(z, v) == [z EXCEPT !.default = v]

\* parameters: z.object({ ... }) of each tool (scheduleTask takes its schema
\* from agents/schedule and is left out)
Schema(t) ==
  CASE t = "getWeatherInformation" -> [city |-> ZString(NoLimit, NoLimit)]
    [] t = "getLocalTime" -> [location |-> ZString(NoLimit, NoLimit)]
    [] t = "searchFlights" ->
         [origin |-> ZString(3, 3),
          destination |-> ZString(3, 3),
          departDate |-> ZString(NoLimit, NoLimit),
          returnDate |-> Optional(ZString(NoLimit, NoLimit)),
          passengers |-> Default(ZIntMin1, Num(1)),
          cabin |-> Optional(ZEnum({"economy", "premium_economy", "business", "first"})),
          maxPrice |-> Optional(ZIntPositive)]
    [] t = "searchHotels" ->
         [city |-> ZString(2, NoLimit),
          checkIn |-> ZString(NoLimit, NoLimit),
          checkOut |-> ZString(NoLimit, NoLimit),
          guests |-> Default(ZIntMin1, Num(1)),
          roomCount |-> Optional(ZIntMin1),
          budgetUSD |-> Optional(ZIntPositive)]
    [] t = "getRecommendations" ->
         [city |-> Optional(ZString(NoLimit, NoLimit)),
          interests |-> Optional(ZStrings),
          month |-> Optional(ZString(NoLimit, NoLimit)),
          budgetUSD |-> Optional(ZIntPositive)]
    [] t = "estimateTravelBudget" ->
         [flightMaxUSD |-> Optional(ZIntPositive),
          hotelPerNightUSD |-> Optional(ZIntPositive),
          nights |-> Optional(ZIntPositive),
          activitiesUSD |-> Optional(ZIntPositive),
          passengers |-> Optional(ZIntPositive)]
    [] t = "getScheduledTasks" -> <<>>
    [] t = "cancelScheduledTask" -> [taskId |-> ZString(NoLimit, NoLimit)]
    [] t = "bookFlight" ->
         [flightId |-> ZString(NoLimit, NoLimit),
          passengers |-> ZNames,
          paymentToken |-> Optional(ZString(NoLimit, NoLimit))]
    [] t = "bookHotel" ->
         [hotelId |-> ZString(NoLimit, NoLimit),
          guest |-> ZNameObject,
          rooms |-> Default(ZIntMin1, Num(1)),
          paymentToken |-> Optional(ZString(NoLimit, NoLimit))]

SchemaTools == ToolNames \ {"scheduleTask"}

\* an element of an array, or the one object, against its schema
ElemAccepts(elem, e) ==
  IF elem = "name"
  THEN e.type = "object" /\ Len(e.firstName) >= 1 /\ Len(e.lastName) >= 1
  ELSE e.type = "string"

\* safeParse succeeds on the value of one key
Accepts(z, v) ==
  IF v.type = "undefined" THEN z.optional \/ z.default.type # "undefined"
  ELSE CASE z.kind = "string" ->
              /\ v.type = "string"
              /\ z.minLen # NoLimit => Len(v.text) >= z.minLen
              /\ z.maxLen # NoLimit => Len(v.text) <= z.maxLen
         [] z.kind = "number" ->
              /\ v.type = "number"
              /\ z.int => v.whole
              /\ z.min # NoLimit => v.num >= z.min
              /\ z.positive => (v.num > 0 \/ (v.num = 0 /\ ~v.whole))
         [] z.kind = "enum" -> v.type = "string" /\ v.text \in z.options
         [] z.kind = "array" ->
              /\ v.type = "array"
              /\ z.minLen # NoLimit => Len(v.elems) >= z.minLen
              /\ \A i \in 1..Len(v.elems) : ElemAccepts(z.elem, v.elems[i])
         [] z.kind = "object" ->
              /\ v.type = "object"
              /\ ElemAccepts(z.elem, v.elems[1])

\* faulty variant: every number left out is parsed as 1
OutputDefaultingNumbers(z, v) ==
  IF v.type = "undefined"
  THEN (IF z.kind = "number" THEN Num(1) ELSE z.default)
  ELSE v

\* the value safeParse gives for one key: the default for a key left out that
\* has one, the value as it is otherwise
Output(z, v) ==
  IF v.type = "undefined" THEN z.default ELSE v

\* the keys the arguments fail the schema at
Issues(t, args) == {f \in DOMAIN Schema(t) : ~Accepts(Schema(t)[f], args[f])}
\* the parsed arguments
Parsed(t, args) == [f \in DOMAIN Schema(t) |-> Output(Schema(t)[f], args[f])]

\* The arguments the model sends in the checked calls: for each tool an object
\* with every key given and one with only the required keys, and each of the
\* two with the value of one key replaced.
Names == {Name("Jane", "Doe"), Name("", "Doe"), Name("Jane", "")}
NameLists ==
  UNION {[1..n -> Names] : n \in 0..MaxPassengers}
Candidates ==
  {UndefinedValue,
   Str(""), Str("L"), Str("LI"), Str("LIS"), Str("LISB"), Str("2"),
   Str("economy"), Str("coach"),
   Num(-1), Num(0), Num(1), Num(2), Half(0), Half(1),
   Arr(<<Text("surf")>>), Obj(Name("Jane", "Doe")), Obj(Name("Jane", ""))}
     \cup {Arr(names) : names \in NameLists}
TypicalValue(z) ==
  CASE z.kind = "string" -> Str("LIS")
    [] z.kind = "number" -> Num(2)
    [] z.kind = "enum" -> Str("economy")
    [] z.kind = "array" ->
         IF z.elem = "name" THEN Arr(<<Name("Jane", "Doe")>>) ELSE Arr(<<Text("surf")>>)
    [] z.kind = "object" -> Obj(Name("Jane", "Doe"))
Typical(t) == [f \in DOMAIN Schema(t) |-> TypicalValue(Schema(t)[f])]
Required(t) ==
  [f \in DOMAIN Schema(t) |->
     IF Schema(t)[f].optional \/ Schema(t)[f].default.type # "undefined"
     THEN UndefinedValue ELSE TypicalValue(Schema(t)[f])]
ArgsOf(t) ==
  {Typical(t), Required(t)}
    \cup {[Typical(t) EXCEPT ![f] = v] : f \in DOMAIN Schema(t), v \in Candidates}
    \cup {[Required(t) EXCEPT ![f] = v] : f \in DOMAIN Schema(t), v \in Candidates}

\* the model asks for tool t with args
ToolCall(t, args) ==
  /\ invocation.pc = "idle"
  /\ invocation' = [NoInvocation EXCEPT !.pc = "called", !.tool = t, !.args = args]
  /\ UNCHANGED <<gateVars, travelVars, exchangeVars>>

\* the call is parsed against parameters: a call whose arguments fail is an
\* invalid-tool-arguments error of the stream, and no tool call
ParseToolCall ==
  /\ invocation.pc = "called"
  /\ invocation' =
       IF Issues(invocation.tool, invocation.args) = {}
       THEN [invocation EXCEPT !.pc = "parsed",
                               !.parsed = Parsed(invocation.tool, invocation.args)]
       ELSE [invocation EXCEPT !.pc = "rejected",
                               !.error = [name |-> "AI_InvalidToolArgumentsError",
                                          toolName |-> invocation.tool,
                                          issues |-> Issues(invocation.tool, invocation.args)]]
  /\ UNCHANGED <<gateVars, travelVars, exchangeVars>>

\* execute: async (args) => ... of a tool declared with one
ExecuteTool ==
  /\ invocation.pc = "parsed"
  /\ HasExecute(invocation.tool)
  /\ invocation' = [invocation EXCEPT !.pc = "done", !.ran = <<invocation.parsed>>]
  /\ UNCHANGED <<gateVars, travelVars, exchangeVars>>

\* a tool declared without execute: the call waits for its decision
AwaitDecision ==
  /\ invocation.pc = "parsed"
  /\ ~HasExecute(invocation.tool)
  /\ invocation' = [invocation EXCEPT !.pc = "pending"]
  /\ UNCHANGED <<gateVars, travelVars, exchangeVars>>

\* the gate acts on the decision: executions[toolName](args) after an
\* approval, nothing run after a rejection
GateDecided(decision) ==
  /\ invocation.pc = "pending"
  /\ invocation' =
       IF decision = ApprovalYes /\ invocation.tool \in Executions
       THEN [invocation EXCEPT !.pc = "done", !.ran = <<invocation.parsed>>]
       ELSE [invocation EXCEPT !.pc = "denied"]
  /\ UNCHANGED <<gateVars, travelVars, exchangeVars>>

ValidationNext ==
  \/ \E t \in SchemaTools : \E args \in ArgsOf(t) : ToolCall(t, args)
  \/ ParseToolCall
  \/ ExecuteTool
  \/ AwaitDecision
  \/ \E decision \in {ApprovalYes, ApprovalNo} : GateDecided(decision)

SpecValidation == Init /\ [][ValidationNext]_vars

\* the defaults the registry documents: the key left out is given as 1
DocumentedDefaults ==
  {<<"searchFlights", "passengers">>, <<"searchHotels", "guests">>, <<"bookHotel", "rooms">>}

DeclaredWithoutExecute == {t \in ToolNames : ~HasExecute(t)}

\* C21: the registry and the executions table agree: the tools declared
\* without execute are getWeatherInformation, bookFlight and bookHotel, the
\* keys of executions are exactly these, no tool declared with execute has an
\* entry, and so an approved gated call a pass has run over was dispatched to
\* its operation, and every run of an auto tool's call is its own execute,
\* never a run through the gate.
RegistryAgreesWithExecutions ==
  /\ DeclaredWithoutExecute = {"getWeatherInformation", "bookFlight", "bookHotel"}
  /\ Executions = DeclaredWithoutExecute
  /\ \A t \in ToolNames : HasExecute(t) => t \notin Executions
  /\ \A id \in CallIds :
       /\ Present(id)
       /\ toolInvocations[id].toolName \in DeclaredWithoutExecute
       /\ decisions[id] = ApprovalYes
       /\ passes[id] # "none"
       => /\ toolInvocations[id].toolName \in Executions
          /\ Len(runs[id]) = 1
          /\ runs[id][1].decision = ApprovalYes
  /\ \A id \in CallIds :
       (Present(id) /\ HasExecute(toolInvocations[id].toolName)) =>
         \A i \in 1..Len(runs[id]) : runs[id][i].decision = NoDecision

BookingDispatchedAutoCallPassedOver ==
  \E id \in CallIds, auto \in CallIds :
    /\ toolInvocations[id].toolName = "bookHotel"
    /\ decisions[id] = ApprovalYes
    /\ results[id] = OperationResult("bookHotel", toolInvocations[id].args)
    /\ toolInvocations[auto].toolName = "searchFlights"
    /\ decisions[auto] = ApprovalYes
    /\ passes[auto] # "none"
    /\ Len(runs[auto]) = 1

\* a step that changes the decision of a call submits one decision: the call
\* had none and, when its tool needs confirmation, no result either (state
\* "call"); the decision is the approval or the rejection; no other call's
\* decision changes with it
OneDecisionForACallInStateCall ==
  \A id \in CallIds :
    decisions'[id] # decisions[id] =>
      /\ Present(id)
      /\ decisions[id] = NoDecision
      /\ decisions'[id] \in {"approved", "rejected"}
      /\ toolInvocations[id].toolName \in {"getWeatherInformation", "bookFlight", "bookHotel"} =>
           results[id] = NoResult
      /\ \A other \in CallIds \ {id} : decisions'[other] = decisions[other]

\* the controls are offered only for a call that needs confirmation and has
\* neither decision nor result
ControlsOnlyInStateCall ==
  \A id \in CallIds :
    CardOffersControls(id) =>
      /\ toolInvocations[id].toolName \in {"getWeatherInformation", "bookFlight", "bookHotel"}
      /\ decisions[id] = NoDecision
      /\ results[id] = NoResult

\* C22: the card offers approve and reject only for a call that needs
\* confirmation and is in state "call"; a click submits exactly one decision,
\* the approval or the rejection, for that card's call identifier; a call in
\* state "result" is submitted no decision, so that no call is given both an
\* approval and a rejection.
CardSubmitsOneDecisionPerCall ==
  /\ []ControlsOnlyInStateCall
  /\ [][OneDecisionForACallInStateCall]_vars

OneCallApprovedAnotherRejected ==
  \E id \in GatedCalls, other \in GatedCalls :
    /\ decisions[id] = ApprovalYes
    /\ decisions[other] = ApprovalNo
    /\ ToolInvocationState(id) = "result"
    /\ ToolInvocationState(other) = "result"
    /\ ~CardOffersControls(id)
    /\ ~CardOffersControls(other)

====
